---- MODULE Spec2Model ----
(***************************************************************************)
(* A model of llmagent's ChatAgent (llmagent/agent/chat_agent.py) and of   *)
(* the recursive link crawler find_urls and the input classifier           *)
(* get_urls_and_paths (llmagent/parsing/urls.py).                          *)
(*                                                                         *)
(* Four specifications share one set of variables:                         *)
(*   SpecAgent  a caller invoking start(), respond() and run() in any order *)
(*   SpecRun    one execution of ChatAgent.run()                           *)
(*   SpecCrawl  one top-level call of find_urls(seed, max_depth=...)       *)
(*   SpecInputs one call of get_urls_and_paths(inputs)                     *)
(***************************************************************************)
EXTENDS Integers, Sequences, FiniteSets, TLC

\* ChatAgent state
VARIABLES task_messages, message_history
\* what the last start()/respond() call did, and the clean-turn counter
VARIABLES last_call, turns
\* ChatAgent.run(): position and locals
VARIABLES pc, llm_msg, agent_result, msg, iter, llm_total
\* find_urls: arguments, visited set, call stack, the web as observed
VARIABLES max_depth, visited, stack, pages, fetched, called, reached, result
\* get_urls_and_paths: argument, the filesystem, loop position, the two
\* lists, and where each entry (and each warning) came from
VARIABLES inputs, fs, pos, urls, paths, url_src, path_src, warned, returned

agentVars == <<task_messages, message_history, last_call, turns>>
runVars   == <<pc, llm_msg, agent_result, msg, iter, llm_total>>
crawlVars == <<max_depth, visited, stack, pages, fetched, called, reached, result>>
inputVars == <<inputs, fs, pos, urls, paths, url_src, path_src, warned, returned>>
vars      == <<agentVars, runVars, crawlVars, inputVars>>

-----------------------------------------------------------------------------
(* Bounds and input domains *)

\* longest task list handed to the constructor
MaxTask == 2
\* longest transcript explored
MaxHist == 6
\* most anchors on one page
MaxLinks == 2
\* largest max_depth argument
MaxDepth == 2
\* longest list handed to get_urls_and_paths
MaxInputs == 3

Roles == {"system", "user", "assistant"}

Msg(r, c) == [role |-> r, content |-> c]

\* messages a caller may put in the task list
TaskMsgs == {Msg(r, "t") : r \in Roles}

\* the constructor's task argument: None, or a list of messages
TaskArgs ==
    {[none |-> TRUE, msgs |-> <<>>]} \cup
    {[none |-> FALSE, msgs |-> s] : s \in UNION {[1..n -> TaskMsgs] : n \in 0..MaxTask}}

\* replies of the LLM capability, and the outcome of a failed call
Replies == {"r1", "r2"}
LLMError == "LLMError"
LLMOutcomes == Replies \cup {LLMError}

\* user messages a direct caller of respond() passes
UserMsgs == {"hello"}

-----------------------------------------------------------------------------
(* ChatAgent.__init__ *)

DefaultTask == <<Msg("system", "You are a helpful assistant")>>

InitTask(task) == IF task.none THEN DefaultTask ELSE task.msgs

(* ChatAgent.start / ChatAgent.respond *)

\* the transcript start() hands to respond_messages
StartTranscript(task, hist) == task

StartHistory_FromHistory(task, reply) ==
    message_history \o <<Msg("assistant", reply)>>

\* message_history as assigned by a successful start()
StartHistory(task, reply) == task \o <<Msg("assistant", reply)>>

AppendUser_Reset(hist, m) == <<Msg("user", m)>>

\* first append of respond(): the user message
AppendUser(hist, m) == Append(hist, Msg("user", m))

AppendAssistant_Dropped(hist, reply) == hist

\* second append of respond(): the assistant reply
AppendAssistant(hist, reply) == Append(hist, Msg("assistant", reply))

RespondOnError_Rollback(pre, withUser) == pre

\* message_history when respond_messages raises inside respond(): the user
\* message appended before the call stays, nothing is undone
RespondOnError(pre, withUser) == withUser

\* the LLM calls one operation makes on a transcript: one attempt, no retry
LLMCalls(transcript) == <<transcript>>

NoCall ==
    [op |-> "none", by |-> "", arg |-> "", ok |-> TRUE, pre |-> <<>>,
     task |-> <<>>, sent |-> <<>>, ret |-> ""]

\* start() as a whole; out is what the LLM call produces, by is who called
DoStart(out, by) ==
    /\ task_messages' = task_messages
    /\ message_history' =
          IF out = LLMError THEN message_history
          ELSE StartHistory(task_messages, out)
    /\ last_call' =
          [op |-> "start", by |-> by, arg |-> "", ok |-> out # LLMError,
           pre |-> message_history, task |-> task_messages,
           sent |-> LLMCalls(StartTranscript(task_messages, message_history)),
           ret |-> out]
    /\ turns' = IF out = LLMError THEN -1 ELSE 0

\* respond(message) as a whole
DoRespond(m, out, by) ==
    /\ Len(message_history) + 2 <= MaxHist
    /\ task_messages' = task_messages
    /\ message_history' =
          IF out = LLMError
          THEN RespondOnError(message_history, AppendUser(message_history, m))
          ELSE AppendAssistant(AppendUser(message_history, m), out)
    /\ last_call' =
          [op |-> "respond", by |-> by, arg |-> m, ok |-> out # LLMError,
           pre |-> message_history, task |-> task_messages,
           sent |-> LLMCalls(AppendUser(message_history, m)),
           ret |-> out]
    /\ turns' = IF out = LLMError \/ turns < 0 THEN -1 ELSE turns + 1

-----------------------------------------------------------------------------
(* SpecAgent: start(), respond() and run() called in any order *)

\* bookkeeping of one iteration of run()'s loop: its number, handle_message
\* calls, reformat prompts sent, lines of human input read, outcome of the
\* two interpretations, whether msg was obtained and the LLM call count then
FreshIter ==
    [round |-> 0, handled |-> 0, reformats |-> 0, inputs |-> 0,
     first |-> FALSE, second |-> FALSE, got_msg |-> FALSE, at_msg |-> 0]

IdleRun ==
    /\ pc = "idle" /\ llm_msg = "" /\ agent_result = <<>> /\ msg = ""
    /\ iter = FreshIter
    /\ llm_total = 0

IdleCrawl ==
    /\ max_depth = 0 /\ visited = {} /\ stack = <<>> /\ pages = <<>>
    /\ fetched = <<>> /\ called = <<>> /\ reached = <<>>
    /\ result = [returned |-> FALSE, value |-> {}]

IdleInputs ==
    /\ inputs = <<>> /\ fs = {} /\ pos = 0 /\ urls = <<>> /\ paths = <<>>
    /\ url_src = <<>> /\ path_src = <<>> /\ warned = <<>> /\ returned = FALSE

InitAgent ==
    /\ \E task \in TaskArgs : task_messages = InitTask(task)
    /\ message_history = <<>>
    /\ last_call = NoCall
    /\ turns = -1
    /\ IdleRun
    /\ IdleCrawl
    /\ IdleInputs

Start ==
    /\ pc = "idle"
    /\ \E out \in LLMOutcomes : DoStart(out, "caller")
    /\ UNCHANGED <<runVars, crawlVars, inputVars>>

Respond ==
    /\ pc = "idle"
    /\ \E m \in UserMsgs, out \in LLMOutcomes : DoRespond(m, out, "caller")
    /\ UNCHANGED <<runVars, crawlVars, inputVars>>

-----------------------------------------------------------------------------
(* ChatAgent.run *)

\* the prompt run() sends when the LLM output could not be interpreted
ReformatPrompt == "If your question fits one of the JSON templates I gave, rewrite using that format please"

ExitTokens == {"exit", "quit", "q", "x", "bye"}

\* handle_message returns None (<<>>) or a result (<<r>>)
AgentResults == {"obs", "x"}
HandleResults == {<<>>} \cup {<<r>> : r \in AgentResults}

\* lines the human may type
HumanInputs == {"hello", "Q", "q", "bye"}

\* f"{agent_result}" of a string result
Format(r) == r

NeedsReformat_Always(res) == TRUE

\* `if agent_result is None` before the reformat prompt
NeedsReformat(res) == res = <<>>

\* `if agent_result is not None` when choosing the next message
HasResult(res) == res # <<>>

IsExit_AnyCase(m) == m \in ExitTokens \cup {"Q", "X"}

\* `if msg in [...]: break`
IsExit(m) == m \in ExitTokens

\* llm_msg = self.start().content
RunStart ==
    /\ pc = "start"
    /\ \E out \in LLMOutcomes :
          /\ DoStart(out, "run")
          /\ pc' = IF out = LLMError THEN "raised" ELSE "handle"
          /\ llm_msg' = IF out = LLMError THEN llm_msg ELSE out
    /\ llm_total' = llm_total + 1
    /\ UNCHANGED <<agent_result, msg, iter, crawlVars, inputVars>>

\* top of the loop: agent_result = self.handle_message(llm_msg)
RunHandle ==
    /\ pc = "handle"
    /\ \E res \in HandleResults :
          /\ agent_result' = res
          /\ iter' = [FreshIter EXCEPT !.round = iter.round + 1, !.handled = 1,
                                    !.first = (res # <<>>)]
          /\ pc' = IF NeedsReformat(res) THEN "reformat" ELSE "next_msg"
    /\ UNCHANGED <<agentVars, llm_msg, msg, llm_total, crawlVars, inputVars>>

\* llm_msg = self.respond(<reformat prompt>).content
RunReformat ==
    /\ pc = "reformat"
    /\ \E out \in LLMOutcomes :
          /\ DoRespond(ReformatPrompt, out, "run")
          /\ pc' = IF out = LLMError THEN "raised" ELSE "handle2"
          /\ llm_msg' = IF out = LLMError THEN llm_msg ELSE out
    /\ iter' = [iter EXCEPT !.reformats = @ + 1]
    /\ llm_total' = llm_total + 1
    /\ UNCHANGED <<agent_result, msg, crawlVars, inputVars>>

\* agent_result = self.handle_message(llm_msg), second interpretation
RunHandle2 ==
    /\ pc = "handle2"
    /\ \E res \in HandleResults :
          /\ agent_result' = res
          /\ iter' = [iter EXCEPT !.handled = @ + 1, !.second = (res # <<>>)]
    /\ pc' = "next_msg"
    /\ UNCHANGED <<agentVars, llm_msg, msg, llm_total, crawlVars, inputVars>>

\* msg is the formatted result or a line of human input; then the exit test
RunNextMsg ==
    /\ pc = "next_msg"
    /\ \E h \in HumanInputs :
          /\ msg' = IF HasResult(agent_result) THEN Format(agent_result[1]) ELSE h
          /\ iter' = [iter EXCEPT
                        !.inputs = IF HasResult(agent_result) THEN @ ELSE @ + 1,
                        !.got_msg = TRUE,
                        !.at_msg = llm_total]
    /\ pc' = IF IsExit(msg') THEN "done" ELSE "respond"
    /\ UNCHANGED <<agentVars, llm_msg, agent_result, llm_total, crawlVars, inputVars>>

\* llm_msg = self.respond(msg).content
RunRespond ==
    /\ pc = "respond"
    /\ \E out \in LLMOutcomes :
          /\ DoRespond(msg, out, "run")
          /\ pc' = IF out = LLMError THEN "raised" ELSE "handle"
          /\ llm_msg' = IF out = LLMError THEN llm_msg ELSE out
    /\ llm_total' = llm_total + 1
    /\ UNCHANGED <<agent_result, msg, iter, crawlVars, inputVars>>

RunStep ==
    \/ RunStart
    \/ RunHandle
    \/ RunReformat
    \/ RunHandle2
    \/ RunNextMsg
    \/ RunRespond

\* the caller invokes run()
RunCall ==
    /\ pc = "idle"
    /\ pc' = "start"
    /\ llm_msg' = "" /\ agent_result' = <<>> /\ msg' = ""
    /\ iter' = FreshIter
    /\ llm_total' = 0
    /\ UNCHANGED <<agentVars, crawlVars, inputVars>>

NextAgent == Start \/ Respond \/ RunCall \/ RunStep

SpecAgent == InitAgent /\ [][NextAgent]_vars

(* SpecRun: one execution of run() on a freshly constructed agent *)

InitRun ==
    /\ \E task \in TaskArgs : task_messages = InitTask(task)
    /\ message_history = <<>>
    /\ last_call = NoCall
    /\ turns = -1
    /\ pc = "start" /\ llm_msg = "" /\ agent_result = <<>> /\ msg = ""
    /\ iter = FreshIter
    /\ llm_total = 0
    /\ IdleCrawl
    /\ IdleInputs

NextRun == RunStep

SpecRun == InitRun /\ [][NextRun]_vars

-----------------------------------------------------------------------------
(* find_urls *)

URLs == {"/a", "/b", "/c"}

\* the url argument of the top-level call; pages may link to any URL, so
\* which of the URLs is the seed makes no difference
SeedUrl == "/a"

\* href values of anchors: an absolute reference, or the empty reference
Hrefs == URLs \cup {""}

\* urljoin(url, href)
UrlJoin(base, href) == IF href = "" THEN base ELSE href

HrefLists == UNION {[1..n -> Hrefs] : n \in 0..MaxLinks}

\* bodies of error responses: they may hold anchors too (one is enough to
\* tell whether the crawler reads them)
ErrorBodies == {<<>>} \cup {<<h>> : h \in Hrefs}

\* what requests.get(url) followed by raise_for_status() produces: a page,
\* an error status, or an exception
FetchOutcomes ==
    {[status |-> "ok", hrefs |-> h] : h \in HrefLists}
        \cup {[status |-> "http_error", hrefs |-> h] : h \in ErrorBodies}
        \cup {[status |-> "exception", hrefs |-> <<>>]}

NotFetched == [status |-> "none", hrefs |-> <<>>]

FetchFailed_NoStatusCheck(outcome) == outcome.status = "exception"

\* the except clause: HTTPError and RequestException end the call
FetchFailed(outcome) == outcome.status # "ok"

\* urls = [urljoin(url, link["href"]) for link in links]
FullUrls(url, hrefs) == [k \in 1..Len(hrefs) |-> UrlJoin(url, hrefs[k])]

MayDescend_Inclusive(depth, limit) == depth <= limit

\* `if depth < max_depth`
MayDescend(depth, limit) == depth < limit

Unvisited_Unchecked(link_url, seen) == TRUE

\* `if link_url not in visited`
Unvisited(link_url, seen) == link_url \notin seen

Frame(url, depth) ==
    [url |-> url, depth |-> depth, phase |-> "enter", urls |-> <<>>, i |-> 1]

Top == stack[Len(stack)]
Pop == SubSeq(stack, 1, Len(stack) - 1)
SetTop(f) == [stack EXCEPT ![Len(stack)] = f]

InitCrawl ==
    /\ task_messages = DefaultTask
    /\ message_history = <<>>
    /\ last_call = NoCall
    /\ turns = -1
    /\ IdleRun
    /\ IdleInputs
    /\ max_depth \in 0..MaxDepth
    /\ visited = {}
    /\ stack = <<Frame(SeedUrl, 0)>>
    /\ pages = [u \in URLs |-> NotFetched]
    /\ fetched = [u \in URLs |-> 0]
    /\ called = [u \in URLs |-> <<>>]
    /\ reached = [u \in URLs |-> -1]
    /\ result = [returned |-> FALSE, value |-> {}]

\* the frame on top returns visited to its caller
ReturnFrom(newVisited) ==
    /\ stack' = Pop
    /\ result' = IF Len(stack) = 1
                 THEN [returned |-> TRUE, value |-> newVisited]
                 ELSE result

\* entry of a call up to the loop: add url to visited, fetch it, and either
\* return (fetch failed, or depth bound reached) or start on the links
Enter ==
    /\ stack # <<>>
    /\ Top.phase = "enter"
    /\ visited' = visited \cup {Top.url}
    /\ reached' = [reached EXCEPT ![Top.url] = Top.depth]
    /\ fetched' = [fetched EXCEPT ![Top.url] = @ + 1]
    /\ \E outcome \in FetchOutcomes :
          /\ pages' = [pages EXCEPT ![Top.url] = outcome]
          /\ IF FetchFailed(outcome) \/ ~MayDescend(Top.depth, max_depth)
             THEN ReturnFrom(visited')
             ELSE /\ stack' = SetTop([Top EXCEPT
                                        !.phase = "loop",
                                        !.urls = FullUrls(Top.url, outcome.hrefs)])
                  /\ UNCHANGED result
    /\ UNCHANGED <<max_depth, called>>

\* one round of `for link_url in urls`: recurse into an unvisited link
Descend ==
    /\ stack # <<>>
    /\ Top.phase = "loop"
    /\ Top.i <= Len(Top.urls)
    /\ LET link_url == Top.urls[Top.i]
           next == [Top EXCEPT !.i = @ + 1]
       IN  IF Unvisited(link_url, visited)
           THEN /\ stack' = Append(SetTop(next), Frame(link_url, Top.depth + 1))
                /\ called' = [called EXCEPT ![link_url] = Append(@, Top.url)]
           ELSE /\ stack' = SetTop(next)
                /\ UNCHANGED called
    /\ UNCHANGED <<max_depth, visited, pages, fetched, reached, result>>

\* the loop is over: return visited
Return ==
    /\ stack # <<>>
    /\ Top.phase = "loop"
    /\ Top.i > Len(Top.urls)
    /\ ReturnFrom(visited)
    /\ UNCHANGED <<max_depth, visited, pages, fetched, called, reached>>

NextCrawl ==
    \/ Enter /\ UNCHANGED <<agentVars, runVars, inputVars>>
    \/ Descend /\ UNCHANGED <<agentVars, runVars, inputVars>>
    \/ Return /\ UNCHANGED <<agentVars, runVars, inputVars>>

SpecCrawl == InitCrawl /\ [][NextCrawl]_vars

-----------------------------------------------------------------------------
(* get_urls_and_paths *)

\* an input string: optional surrounding whitespace, then either
\* scheme://host or, without a scheme, a plain name
Item(pad, scheme, rest) == [pad |-> pad, scheme |-> scheme, rest |-> rest]

Items ==
    { Item(FALSE, "https", "example.com"),
      Item(TRUE,  "https", "example.com"),
      Item(FALSE, "https", ""),
      Item(FALSE, "ftp",   "example.com"),
      Item(FALSE, "",      "./local_dir"),
      Item(FALSE, "",      "notes.txt") }

InputLists == UNION {[1..n -> Items] : n \in 0..MaxInputs}

IsValidUrl_AnyScheme(item) == item.scheme # "" /\ item.rest # ""

\* Url(url=item) does not raise ValidationError: an http or https URL with
\* a host (surrounding whitespace is allowed)
IsValidUrl(item) == item.scheme \in {"http", "https"} /\ item.rest # ""

\* m.url, the validated value: the URL without the surrounding whitespace
ValidatedUrl(item) == [item EXCEPT !.pad = FALSE]

\* os.path.exists(item), on the string as given
PathExists(item, files) == item \in files

InitInputs ==
    /\ task_messages = DefaultTask
    /\ message_history = <<>>
    /\ last_call = NoCall
    /\ turns = -1
    /\ IdleRun
    /\ IdleCrawl
    /\ inputs \in InputLists
    /\ fs \in SUBSET Items
    /\ pos = 1
    /\ urls = <<>> /\ paths = <<>>
    /\ url_src = <<>> /\ path_src = <<>> /\ warned = <<>>
    /\ returned = FALSE

\* one round of `for item in inputs`
ClassifyItem ==
    /\ ~returned
    /\ pos <= Len(inputs)
    /\ LET item == inputs[pos] IN
          IF IsValidUrl(item)
          THEN /\ urls' = Append(urls, ValidatedUrl(item))
               /\ url_src' = Append(url_src, pos)
               /\ UNCHANGED <<paths, path_src, warned>>
          ELSE IF PathExists(item, fs)
          THEN /\ paths' = Append(paths, item)
               /\ path_src' = Append(path_src, pos)
               /\ UNCHANGED <<urls, url_src, warned>>
          ELSE /\ warned' = Append(warned, pos)
               /\ UNCHANGED <<urls, url_src, paths, path_src>>
    /\ pos' = pos + 1
    /\ UNCHANGED <<inputs, fs, returned>>

\* return urls, paths
ReturnLists ==
    /\ ~returned
    /\ pos > Len(inputs)
    /\ returned' = TRUE
    /\ UNCHANGED <<inputs, fs, pos, urls, paths, url_src, path_src, warned>>

NextInputs ==
    \/ ClassifyItem /\ UNCHANGED <<agentVars, runVars, crawlVars>>
    \/ ReturnLists /\ UNCHANGED <<agentVars, runVars, crawlVars>>

SpecInputs == InitInputs /\ [][NextInputs]_vars

-----------------------------------------------------------------------------
(* Properties of ChatAgent *)

IsPrefix(s, t) == Len(s) <= Len(t) /\ SubSeq(t, 1, Len(s)) = s

Called(op) == last_call.op = op
Succeeded(op) == last_call.op = op /\ last_call.ok
Failed(op) == last_call.op = op /\ ~last_call.ok

\* C1: after a successful start() followed by n successful respond() calls
\* and nothing else (turns = n), the transcript holds the task messages, the
\* first assistant reply and one user+assistant pair per respond() call.
C1_TranscriptGrowth ==
    turns >= 0 =>
        Len(message_history) = Len(task_messages) + 1 + 2 * turns

C1_Witness ==
    /\ turns = 2
    /\ Len(task_messages) = 1

\* C2 as stated: over successful start() and respond() calls the transcript
\* before each call is a prefix of the transcript after it.
C2_OnlyGrows ==
    (last_call.op # "none" /\ last_call.ok) =>
        IsPrefix(last_call.pre, message_history)

\* C2 amended: every successful respond() keeps the earlier transcript as a
\* prefix and adds exactly two messages to it, and so does a start() on an
\* empty transcript; a start() on a non-empty transcript replaces it by the
\* task messages and the new reply.
C2_RespondOnlyGrows ==
    /\ Succeeded("respond") =>
          /\ IsPrefix(last_call.pre, message_history)
          /\ Len(message_history) = Len(last_call.pre) + 2
    /\ (Succeeded("start") /\ last_call.pre = <<>>) =>
          IsPrefix(last_call.pre, message_history)
    /\ Succeeded("start") =>
          /\ IsPrefix(task_messages, message_history)
          /\ Len(message_history) = Len(task_messages) + 1

C2_Witness ==
    /\ Succeeded("respond")
    /\ Len(last_call.pre) >= 3
    /\ turns >= 1

\* C3: every message of the transcript has a role among system, user and
\* assistant, and a non-empty transcript starts with the first task message
\* (the system/task message).
C3_RolesAndSystemFirst ==
    /\ \A i \in 1..Len(message_history) :
          message_history[i].role \in {"system", "user", "assistant"}
    /\ message_history # <<>> =>
          /\ task_messages # <<>>
          /\ message_history[1] = task_messages[1]

\* C4: a successful start(), from any state, makes exactly one LLM call on
\* task_messages, sets the transcript to task_messages followed by one
\* assistant message carrying the reply, returns that reply and leaves
\* task_messages as it was.
C4_StartContract ==
    Succeeded("start") =>
        /\ last_call.sent = <<last_call.task>>
        /\ message_history =
              last_call.task \o <<[role |-> "assistant", content |-> last_call.ret]>>
        /\ last_call.ret \in Replies
        /\ task_messages = last_call.task

C4_Witness ==
    /\ Succeeded("start")
    /\ Len(last_call.pre) > Len(task_messages) + 1
    /\ last_call.pre[Len(last_call.pre)].role = "assistant"

\* C7: a failed LLM call ends start() or respond() with the error after a
\* single attempt, and ends run() with it too; a failed start() leaves the
\* transcript as it was, a failed respond(msg) leaves it with exactly the
\* user message added.
C7_FailurePropagates ==
    /\ (last_call.op # "none" /\ ~last_call.ok) =>
          /\ last_call.ret = LLMError
          /\ Len(last_call.sent) = 1
          /\ last_call.by = "run" => pc = "raised"
    /\ Failed("start") => message_history = last_call.pre
    /\ Failed("respond") =>
          message_history =
              last_call.pre \o <<[role |-> "user", content |-> last_call.arg]>>
    /\ pc = "raised" => (last_call.by = "run" /\ ~last_call.ok)

C7_Witness ==
    /\ Failed("respond")
    /\ pc = "raised"
    /\ Len(last_call.pre) >= 2
    /\ last_call.arg = ReformatPrompt

-----------------------------------------------------------------------------
(* Properties of ChatAgent.run *)

AfterNextMsg == pc \in {"done", "respond"}

\* C5: run() returns exactly when the next message is one of exit, quit, q,
\* x, bye, and makes no LLM call after obtaining it; an exit token typed as
\* the first human input ends run() in the first iteration; every other
\* next message is passed to respond() exactly once and the loop goes on
\* with the reply.
C5_ExitExactly ==
    /\ AfterNextMsg =>
          (pc = "done" <=> msg \in {"exit", "quit", "q", "x", "bye"})
    /\ pc = "done" => llm_total = iter.at_msg
    /\ (AfterNextMsg /\ iter.round = 1 /\ iter.inputs = 1
            /\ msg \in {"exit", "quit", "q", "x", "bye"}) =>
          /\ pc = "done"
          /\ llm_total = 2
    /\ (pc \in {"handle", "raised"} /\ iter.got_msg) =>
          /\ Called("respond")
          /\ last_call.arg = msg
          /\ msg \notin {"exit", "quit", "q", "x", "bye"}
          /\ llm_total = iter.at_msg + 1
          /\ Len(last_call.sent) = 1
    /\ (pc = "handle" /\ iter.round >= 1) =>
          /\ iter.got_msg
          /\ Succeeded("respond")
          /\ llm_msg = last_call.ret
          /\ message_history[Len(message_history)] =
                [role |-> "assistant", content |-> llm_msg]
          /\ message_history[Len(message_history) - 1] =
                [role |-> "user", content |-> msg]

C5_Witness ==
    /\ pc = "done"
    /\ iter.round = 1
    /\ iter.inputs = 1
    /\ msg = "q"

\* C6: in each iteration a failed first interpretation is followed by exactly
\* one reformat respond() and a second interpretation; human input is read
\* exactly when both interpretations failed; no reformat prompt is sent when
\* the first interpretation succeeded; a failed interpretation never ends
\* run().
C6_ReformatOnce ==
    /\ pc = "reformat" =>
          (~iter.first /\ iter.handled = 1 /\ iter.reformats = 0)
    /\ pc = "handle2" =>
          /\ ~iter.first /\ iter.handled = 1 /\ iter.reformats = 1
          /\ Succeeded("respond")
          /\ last_call.arg = ReformatPrompt
          /\ llm_msg = last_call.ret
    /\ (pc = "next_msg" \/ AfterNextMsg) =>
          /\ iter.first => (iter.reformats = 0 /\ iter.handled = 1)
          /\ ~iter.first => (iter.reformats = 1 /\ iter.handled = 2)
    /\ pc = "next_msg" => iter.inputs = 0
    /\ AfterNextMsg =>
          iter.inputs = (IF ~iter.first /\ ~iter.second THEN 1 ELSE 0)
    /\ pc = "done" => msg \in {"exit", "quit", "q", "x", "bye"}
    /\ pc = "raised" => ~last_call.ok

C6_Witness ==
    /\ pc = "respond"
    /\ iter.round = 2
    /\ ~iter.first /\ ~iter.second
    /\ iter.inputs = 1 /\ iter.reformats = 1

-----------------------------------------------------------------------------
(* Properties of find_urls *)

Seeds == {SeedUrl}

\* the links of a page that was fetched successfully, as full URLs
LinksOf(p) ==
    IF pages[p].status = "ok"
    THEN {UrlJoin(p, pages[p].hrefs[k]) : k \in 1..Len(pages[p].hrefs)}
    ELSE {}

\* URLs reachable from the seed by a chain of at most k links
RECURSIVE ReachWithin(_)
ReachWithin(k) ==
    IF k = 0 THEN Seeds
    ELSE LET R == ReachWithin(k - 1) IN R \cup UNION {LinksOf(p) : p \in R}

RECURSIVE TotalFetches(_)
TotalFetches(S) ==
    IF S = {} THEN 0
    ELSE LET u == CHOOSE x \in S : TRUE IN fetched[u] + TotalFetches(S \ {u})

\* C8: the visited set holds the seed and only URLs reachable from it by at
\* most max_depth links; a page visited at depth max_depth is not descended
\* from; with max_depth = 0 the result is the seed alone after one fetch.
C8_DepthBounded ==
    /\ visited \subseteq ReachWithin(max_depth)
    /\ \A u \in visited : reached[u] \in 0..max_depth
    /\ \A k \in 1..Len(stack) :
          /\ stack[k].depth <= max_depth
          /\ stack[k].phase = "loop" => stack[k].depth < max_depth
    /\ result.returned =>
          /\ result.value = visited
          /\ Seeds \subseteq result.value
    /\ (result.returned /\ max_depth = 0) =>
          /\ result.value = Seeds
          /\ TotalFetches(URLs) = 1

C8_Witness ==
    /\ result.returned
    /\ max_depth = 1
    /\ Cardinality(visited) = 2
    /\ \E u \in visited :
          /\ reached[u] = 1
          /\ LinksOf(u) \ visited # {}

\* C9: in one top-level call every URL is fetched at most once and is the
\* argument of at most one recursive call, whatever the links (cycles, self
\* links, repeated hrefs); the visited set is the set of URLs fetched so far
\* and loses none.
C9_FetchOnce ==
    /\ \A u \in URLs :
          /\ fetched[u] <= 1
          /\ Len(called[u]) <= 1
          /\ (fetched[u] = 1) <=> (u \in visited)
          /\ u \in Seeds => called[u] = <<>>
          /\ (Len(called[u]) = 1 /\ u \notin visited) =>
                (Top.url = u /\ Top.phase = "enter")
    /\ result.returned => TotalFetches(URLs) = Cardinality(result.value)

C9_Witness ==
    /\ result.returned
    /\ max_depth = 2
    /\ \E p \in Seeds, q \in URLs \ Seeds :
          /\ pages[p].status = "ok"
          /\ pages[p].hrefs = <<q, q>>
          /\ pages[q].status = "ok"
          /\ pages[q].hrefs = <<"", p>>

\* C10: a failed fetch (error status or exception) does not end the crawl:
\* the URL stays in the visited set, no recursive call is made from it, the
\* calling page goes on with its remaining links, and the top-level call
\* returns the visited set.
C10_FetchFailureLocal ==
    /\ \A u \in URLs :
          pages[u].status \in {"http_error", "exception"} =>
              /\ u \in visited
              /\ \A v \in URLs : \A k \in 1..Len(called[v]) : called[v][k] # u
    /\ \A k \in 1..Len(stack) :
          stack[k].phase = "loop" => pages[stack[k].url].status = "ok"
    /\ result.returned <=> stack = <<>>
    /\ result.returned =>
          /\ result.value = visited
          /\ \A p \in URLs :
                (pages[p].status = "ok" /\ reached[p] < max_depth) =>
                    \A k \in 1..Len(pages[p].hrefs) :
                        pages[p].hrefs[k] \in visited \cup {""}

C10_Witness ==
    /\ result.returned
    /\ max_depth = 2
    /\ \E p \in Seeds, q \in URLs, r \in URLs :
          /\ p # q /\ q # r /\ p # r
          /\ pages[p].status = "ok"
          /\ pages[p].hrefs = <<q, r>>
          /\ pages[q].status = "http_error"
          /\ pages[q].hrefs = <<r>>
          /\ called[r] = <<p>>
          /\ fetched[r] = 1

-----------------------------------------------------------------------------
(* Properties of get_urls_and_paths *)

\* positions of the inputs that are http(s) URLs with a host
UrlPositions ==
    {i \in DOMAIN inputs :
        inputs[i].scheme \in {"http", "https"} /\ inputs[i].rest # ""}

\* positions of the inputs that are no URL but name an existing path
PathPositions == {i \in DOMAIN inputs \ UrlPositions : inputs[i] \in fs}

\* the members of a set of positions in increasing order
Ascending(S) ==
    CHOOSE q \in [1..Cardinality(S) -> S] :
        /\ \A j, k \in DOMAIN q : j < k => q[j] < q[k]
        /\ {q[k] : k \in DOMAIN q} = S

\* every input occurrence went to exactly one of urls, paths and the
\* warnings, by its class, in input order and with duplicates kept
ClassifiedInOrder ==
    /\ url_src = Ascending(UrlPositions)
    /\ path_src = Ascending(PathPositions)
    /\ warned = Ascending(DOMAIN inputs \ (UrlPositions \cup PathPositions))
    /\ Len(urls) = Len(url_src)
    /\ Len(paths) = Len(path_src)
    /\ Len(urls) + Len(paths) <= Len(inputs)
    /\ \A k \in DOMAIN paths : paths[k] = inputs[path_src[k]]

====
